---- MODULE Spec2Model ----
(***************************************************************************)
(* Model of voxel51/task.py: the TaskStatus state machine, its publish     *)
(* callback, the TaskManager operations built on them and the two failure  *)
(* protocols (fail_gracefully, fail_epically).                             *)
(*                                                                         *)
(* Every handler is one atomic action: the program is single-threaded and  *)
(* a handler runs to its return or to the exception that leaves it.  The   *)
(* remote collaborators (voxu.upload_bytes, voxu.upload, the API client)   *)
(* are modelled by their outcome: each call either returns or raises, and  *)
(* the outcome is an input of the action.  Every attempted remote call of  *)
(* the handler that ran last is recorded, in order, in net.                *)
(***************************************************************************)
EXTENDS Integers, Sequences, FiniteSets, TLC

\* ------------------------------------------------------------------ bounds
MaxOps == 3        \* calls made on one TaskStatus
MaxTime == 1       \* clock readings 0..MaxTime
MaxUrlLen == 5     \* symbols in a task-config URL
MaxCalls == 2      \* calls made on one TaskManager when transfers are among them
MaxManagerOps == 2 \* calls made through TaskManager methods only

\* --------------------------------------------------------------- constants
SCHEDULED == "SCHEDULED"
RUNNING == "RUNNING"
COMPLETE == "COMPLETE"
FAILED == "FAILED"
TaskState == {SCHEDULED, RUNNING, COMPLETE, FAILED}

USER == "USER"
ANALYTIC == "ANALYTIC"
PLATFORM == "PLATFORM"
NONE == "NONE"
TaskFailureType == {USER, ANALYTIC, PLATFORM, NONE}

\* Python's None where a failure type is expected (failure_type=None)
None == "None"
\* Python's None where a timestamp is expected (start_time = None)
NoTime == 0 - 1

\* task_config.job_id, as a sequence of URL symbols
job_id == <<"j">>

\* inputs of record_input_metadata / record_posted_data
InputNames == {"video"}
Metadata == {"m1"}
OutputNames == {"out"}
DataIds == {"d1", "d2"}
Absent == "absent"

\* task_config.inputs: the input names, in iteration order
task_config_inputs == <<"video", "mask">>

\* task_config.parameters: name and value, in iteration order; "5" is a
\* builtin value, "spec_b" a dict of the RemotePathConfig shape
task_config_parameters ==
    <<[name |-> "a", val |-> "5"], [name |-> "b", val |-> "spec_b"]>>

\* local paths voxu.download can return
Paths == {"p1", "p2"}

\* directories a caller passes; "None" is Python's None
Dirs == {"None", "dir"}

\* ------------------------------------------------------------------- state
VARIABLES
    task_status,   \* the TaskStatus instance (its serialized attributes)
    clock,         \* last value returned by etau.get_isotime()
    api_client,    \* TRUE iff the module global _API_CLIENT is set
    net,           \* remote calls attempted by the last handler, in order
    raised,        \* TRUE iff an exception left the last handler
    nops,          \* number of handlers called so far
    op,            \* name of the last handler called
    phase,         \* how far the calls so far follow start, add_message*, complete
    call,          \* arguments of the last handler
    url,           \* task_config_url given to fail_epically
    ret,           \* what the last handler returned, or the kind of error it raised
    limit,         \* number of calls the run may make
    job_state,     \* the state of the job on the platform, as last reported to it
    publish_failed \* TRUE iff some status write or job-state report has raised

vars == <<task_status, clock, api_client, net, raised, nops, op, phase, call, url, ret,
          limit, job_state, publish_failed>>

\* ------------------------------------------------------------- TaskStatus
\* TaskStatus.__init__
TaskStatus_init ==
    [state |-> SCHEDULED,
     failure_type |-> NONE,
     start_time |-> NoTime,
     complete_time |-> NoTime,
     fail_time |-> NoTime,
     messages |-> <<>>,
     inputs |-> [n \in InputNames |-> Absent],
     posted_data |-> [n \in OutputNames |-> Absent]]

\* TaskStatusMessage(msg): time defaults to etau.get_isotime(), here t
TaskStatusMessage(msg, t) == [message |-> msg, time |-> t]

\* TaskStatus.add_message dropping the message once the task has ended
add_message_until_ended(s, msg, t) ==
    IF s.state \in {COMPLETE, FAILED} THEN s
    ELSE [s EXCEPT !.messages = Append(@, TaskStatusMessage(msg, t))]

\* TaskStatus.add_message: appends the message; the caller receives t
add_message(s, msg, t) ==
    [s EXCEPT !.messages = Append(@, TaskStatusMessage(msg, t))]

\* TaskStatus.record_input_metadata
record_input_metadata(s, name, metadata) ==
    [s EXCEPT !.inputs[name] = metadata]

\* TaskStatus.record_posted_data
record_posted_data(s, name, data_id) ==
    [s EXCEPT !.posted_data[name] = data_id]

\* TaskStatus.start
TaskStatus_start(s, t) ==
    [add_message(s, "Task started", t) EXCEPT
        !.start_time = t, !.state = RUNNING]

\* TaskStatus.complete with the assignment of complete_time left out
TaskStatus_complete_untimed(s, t) ==
    [add_message(s, "Task complete", t) EXCEPT !.state = COMPLETE]

\* TaskStatus.complete
TaskStatus_complete(s, t) ==
    [add_message(s, "Task complete", t) EXCEPT
        !.complete_time = t, !.state = COMPLETE]

\* TaskStatus.fail refusing to leave a terminal state
TaskStatus_fail_guarded(s, failure_type, t) ==
    IF s.state \in {COMPLETE, FAILED} THEN s
    ELSE [add_message(s, "Task failed", t) EXCEPT
             !.fail_time = t, !.state = FAILED, !.failure_type = failure_type]

\* TaskStatus.fail
TaskStatus_fail(s, failure_type, t) ==
    [add_message(s, "Task failed", t) EXCEPT
        !.fail_time = t, !.state = FAILED, !.failure_type = failure_type]

\* ---------------------------------------------------------- remote calls
\* One attempted remote call.  result is "ok", "raised" (the call raised) or
\* "no_client" (_get_api_client() raised, so the request was never sent).
\* doc holds the status document of an upload_bytes call.
Call(name, job, path_config, st, ft, doc, result) ==
    [op |-> name, job_id |-> job, path_config |-> path_config, state |-> st,
     failure_type |-> ft, doc |-> doc, result |-> result, returned |-> "None"]

\* A remote call and the value it returned
CallReturning(name, job, path_config, result, returned) ==
    [Call(name, job, path_config, None, None, <<>>, result) EXCEPT
        !.returned = returned]

\* voxu.upload_bytes(task_status.to_str(), status_path_config, ...)
upload_bytes(s, ok) ==
    Call("upload_bytes", <<>>, "status", None, None, <<s>>,
         IF ok THEN "ok" ELSE "raised")

\* voxu.upload(local_path, path_config)
upload(path_config, ok) ==
    Call("upload", <<>>, path_config, None, None, <<>>,
         IF ok THEN "ok" ELSE "raised")

\* _get_api_client().update_job_state(job, st, failure_type=ft)
update_job_state(job, st, ft, result) ==
    Call("update_job_state", job, "None", st, ft, <<>>, result)

\* Outcomes of the remote calls of one publish, and of one upload
PublishOutcomes == {"ok", "write_raises", "no_client", "report_raises"}
UploadOutcomes == {"ok", "raises"}

\* What a handler leaves behind: the TaskStatus, the remote calls it
\* attempted, whether an exception left it, and the _API_CLIENT global
Effect(s, calls, exc, client) ==
    [task_status |-> s, net |-> calls, raised |-> exc, api_client |-> client]

\* _get_api_client(): TRUE iff it returns a client.  make_api_client() is
\* called, and can raise, only while the global is unset.
get_api_client(client, out) == client \/ out # "no_client"

\* _publish_status reporting the job state although the status write raised
publish_status_unordered(s, client, out) ==
    LET failure_type == IF s.state = FAILED THEN s.failure_type ELSE None
    IN  Effect(s, <<upload_bytes(s, out # "write_raises"),
                    update_job_state(job_id, s.state, failure_type,
                        IF ~get_api_client(client, out) THEN "no_client"
                        ELSE IF out = "report_raises" THEN "raised" ELSE "ok")>>,
               out # "ok", get_api_client(client, out))

\* _publish_status passing task_status.failure_type whatever the state
publish_status_always_typed(s, client, out) ==
    IF out = "write_raises"
    THEN Effect(s, <<upload_bytes(s, FALSE)>>, TRUE, client)
    ELSE Effect(s, <<upload_bytes(s, TRUE),
                     update_job_state(job_id, s.state, s.failure_type,
                         IF ~get_api_client(client, out) THEN "no_client"
                         ELSE IF out = "report_raises" THEN "raised" ELSE "ok")>>,
                out # "ok", get_api_client(client, out))

\* make_publish_callback._publish_status, as called by TaskStatus.publish
publish_status(s, client, out) ==
    IF out = "write_raises"
    THEN Effect(s, <<upload_bytes(s, FALSE)>>, TRUE, client)
    ELSE LET failure_type == IF s.state = FAILED THEN s.failure_type ELSE None
         IN  IF ~get_api_client(client, out)
             THEN Effect(s, <<upload_bytes(s, TRUE),
                              update_job_state(job_id, s.state, failure_type,
                                               "no_client")>>, TRUE, client)
             ELSE Effect(s, <<upload_bytes(s, TRUE),
                              update_job_state(job_id, s.state, failure_type,
                                  IF out = "report_raises" THEN "raised" ELSE "ok")>>,
                         out = "report_raises", TRUE)

\* The platform's job state after the remote calls of one handler: the state
\* of the last update_job_state call for this job that went through
Reported(prev, calls) ==
    LET R == {i \in 1..Len(calls) : /\ calls[i].op = "update_job_state"
                                    /\ calls[i].job_id = job_id
                                    /\ calls[i].result = "ok"}
    IN  IF R = {} THEN prev
        ELSE calls[CHOOSE i \in R : \A j \in R : j <= i].state

\* TRUE iff a call of _publish_status among calls did not go through
PublishFailed(calls) ==
    \E i \in 1..Len(calls) : /\ calls[i].op \in {"upload_bytes", "update_job_state"}
                             /\ calls[i].result # "ok"

\* upload_logfile
upload_logfile(up) == upload("logfile", up = "ok")

\* start_task with the publish in a try block that logs and goes on
start_task_contained(s, t, client, out) ==
    LET pub == publish_status(TaskStatus_start(s, t), client, out)
    IN  Effect(pub.task_status, pub.net, FALSE, pub.api_client)

\* start_task marking the status started and leaving the publish out
start_task_unpublished(s, t, client, out) ==
    Effect(TaskStatus_start(s, t), <<>>, FALSE, client)

\* start_task: task_status.start(), then task_status.publish()
start_task(s, t, client, out) ==
    publish_status(TaskStatus_start(s, t), client, out)

\* complete_task with the logfile upload in a try block that logs and goes on
complete_task_upload_contained(s, t, client, logfile_path, out, up) ==
    LET pub == publish_status(TaskStatus_complete(s, t), client, out)
    IN  IF pub.raised \/ ~logfile_path
        THEN pub
        ELSE Effect(pub.task_status, pub.net \o <<upload_logfile(up)>>,
                    FALSE, pub.api_client)

\* complete_task uploading the logfile whatever became of the publish
complete_task_upload_regardless(s, t, client, logfile_path, out, up) ==
    LET pub == publish_status(TaskStatus_complete(s, t), client, out)
    IN  Effect(pub.task_status,
               pub.net \o (IF logfile_path THEN <<upload_logfile(up)>> ELSE <<>>),
               pub.raised \/ (logfile_path /\ up # "ok"), pub.api_client)

\* complete_task: task_status.complete(), task_status.publish(), then the
\* logfile upload when a path is given (reached only if the publish returned)
complete_task(s, t, client, logfile_path, out, up) ==
    LET pub == publish_status(TaskStatus_complete(s, t), client, out)
    IN  IF pub.raised \/ ~logfile_path
        THEN pub
        ELSE Effect(pub.task_status, pub.net \o <<upload_logfile(up)>>,
                    up # "ok", pub.api_client)

\* fail_gracefully with the publish and the upload in one try block: a
\* publish that raises skips the upload
fail_gracefully_one_try(s, failure_type, t, client, logfile_path, out, up) ==
    LET pub == publish_status(TaskStatus_fail(s, failure_type, t), client, out)
    IN  Effect(pub.task_status,
               pub.net \o (IF logfile_path /\ ~pub.raised
                           THEN <<upload_logfile(up)>> ELSE <<>>),
               FALSE, pub.api_client)

\* fail_gracefully with no try block around the logfile upload
fail_gracefully_upload_unguarded(s, failure_type, t, client, logfile_path, out, up) ==
    LET pub == publish_status(TaskStatus_fail(s, failure_type, t), client, out)
    IN  Effect(pub.task_status,
               pub.net \o (IF logfile_path THEN <<upload_logfile(up)>> ELSE <<>>),
               logfile_path /\ up # "ok", pub.api_client)

\* fail_gracefully: task_status.fail(failure_type), then the two try blocks,
\* each with a bare except that logs and goes on
fail_gracefully(s, failure_type, t, client, logfile_path, out, up) ==
    LET pub == publish_status(TaskStatus_fail(s, failure_type, t), client, out)
    IN  Effect(pub.task_status,
               pub.net \o (IF logfile_path THEN <<upload_logfile(up)>> ELSE <<>>),
               FALSE, pub.api_client)

\* ------------------------------------------------- transfers and postings
\* A handler's return value: kind "None", "dict" or "raise" (no handler
\* returns a string, which would be kind "str"); error is the kind of
\* exception that left it
NoReturn == [kind |-> "None", dict |-> <<>>, str |-> "None", error |-> "None"]
ReturnDict(d) == [NoReturn EXCEPT !.kind = "dict", !.dict = d]
Raise(error) == [NoReturn EXCEPT !.kind = "raise", !.error = error]

\* Effect with the return value
Returning(e, r) ==
    [task_status |-> e.task_status, net |-> e.net, raised |-> e.raised,
     api_client |-> e.api_client, ret |-> r]

\* voxu.download with no output directory: a usage error, before any transfer
download_without_dir ==
    [calls |-> <<>>, error |-> "ConfigError", path |-> "None"]

\* voxu.download(path_config, output_dir): out is "raises" or the local
\* path it returns
download(path_config, output_dir, out) ==
    IF output_dir = "None" THEN download_without_dir
    ELSE IF out = "raises"
    THEN [calls |-> <<CallReturning("download", <<>>, path_config, "raised", "None")>>,
          error |-> "TransferError", path |-> "None"]
    ELSE [calls |-> <<CallReturning("download", <<>>, path_config, "ok", out)>>,
          error |-> "None", path |-> out]

DownloadOutcomes == Paths \cup {"raises"}

\* "Input '%s' downloaded" % name
InputDownloaded(name) ==
    IF name = "video" THEN "Input 'video' downloaded" ELSE "Input 'mask' downloaded"

\* "Parameter '%s' downloaded" % name
ParameterDownloaded(name) ==
    IF name = "a" THEN "Parameter 'a' downloaded" ELSE "Parameter 'b' downloaded"

\* download_inputs, the loop from its i-th input on: outs[i] is the outcome
\* of the i-th download, ts[i] the clock reading of the i-th message
RECURSIVE download_inputs_from(_, _, _, _, _, _, _, _)
download_inputs_from(i, s, input_paths, calls, inputs_dir, client, outs, ts) ==
    IF i > Len(task_config_inputs)
    THEN Returning(Effect(s, calls, FALSE, client), ReturnDict(input_paths))
    ELSE LET name == task_config_inputs[i]
             d == download(name, inputs_dir, outs[i])
         IN  IF d.error # "None"
             THEN Returning(Effect(s, calls \o d.calls, TRUE, client), Raise(d.error))
             ELSE download_inputs_from(
                      i + 1, add_message(s, InputDownloaded(name), ts[i]),
                      input_paths @@ (name :> d.path), calls \o d.calls,
                      inputs_dir, client, outs, ts)

\* download_inputs mapping every name to the path downloaded last
download_inputs_last_path(s, inputs_dir, client, outs, ts) ==
    LET r == download_inputs_from(1, s, <<>>, <<>>, inputs_dir, client, outs, ts)
    IN  IF r.raised THEN r
        ELSE [r EXCEPT !.ret.dict =
                 [n \in DOMAIN @ |-> r.net[Len(r.net)].returned]]

\* download_inputs trying a failed download a second time
download_inputs_retrying(s, inputs_dir, client, outs, ts) ==
    LET r == download_inputs_from(1, s, <<>>, <<>>, inputs_dir, client, outs, ts)
    IN  IF r.raised THEN [r EXCEPT !.net = @ \o <<@[Len(@)]>>] ELSE r

\* download_inputs
download_inputs(s, inputs_dir, client, outs, ts) ==
    download_inputs_from(1, s, <<>>, <<>>, inputs_dir, client, outs, ts)

\* voxu.RemotePathConfig.is_path_config_dict
is_path_config_dict(val) == val = "spec_b"

\* parse_parameters, the loop from its i-th parameter on
RECURSIVE parse_parameters_from(_, _, _, _, _, _, _, _)
parse_parameters_from(i, s, parameters, calls, data_params_dir, client, outs, ts) ==
    IF i > Len(task_config_parameters)
    THEN Returning(Effect(s, calls, FALSE, client), ReturnDict(parameters))
    ELSE LET name == task_config_parameters[i].name
             val == task_config_parameters[i].val
         IN  IF is_path_config_dict(val)
             THEN LET d == download(name, data_params_dir, outs[i])
                  IN  IF d.error # "None"
                      THEN Returning(Effect(s, calls \o d.calls, TRUE, client),
                                     Raise(d.error))
                      ELSE parse_parameters_from(
                               i + 1, add_message(s, ParameterDownloaded(name), ts[i]),
                               parameters @@ (name :> d.path), calls \o d.calls,
                               data_params_dir, client, outs, ts)
             ELSE parse_parameters_from(
                      i + 1, s, parameters @@ (name :> val), calls,
                      data_params_dir, client, outs, ts)

\* parse_parameters taking every value for a builtin value
parse_parameters_all_builtin(s, data_params_dir, client, outs, ts) ==
    Returning(Effect(s, <<>>, FALSE, client),
              ReturnDict([n \in {task_config_parameters[i].name :
                                     i \in 1..Len(task_config_parameters)} |->
                             LET i == CHOOSE i \in 1..Len(task_config_parameters) :
                                          task_config_parameters[i].name = n
                             IN  task_config_parameters[i].val]))

\* parse_parameters downloading to a directory of its own when none is given
parse_parameters_default_dir(s, data_params_dir, client, outs, ts) ==
    parse_parameters_from(1, s, <<>>, <<>>, "dir", client, outs, ts)

\* parse_parameters
parse_parameters(s, data_params_dir, client, outs, ts) ==
    parse_parameters_from(1, s, <<>>, <<>>, data_params_dir, client, outs, ts)

\* Result of a call through _get_api_client(): "no_client", "raised" or "ok"
ApiResult(client, out) ==
    IF ~get_api_client(client, out) THEN "no_client"
    ELSE IF out = "raises" THEN "raised" ELSE "ok"

PostOutcomes == {"ok", "metadata_raises", "no_client", "raises"}

\* post_job_metadata_for_video and post_job_metadata: the video metadata is
\* computed, posted under job_id, and the message is added
post_job_metadata(s, client, out, t) ==
    IF out = "metadata_raises"
    THEN Returning(Effect(s, <<>>, TRUE, client), Raise("Error"))
    ELSE LET result == ApiResult(client, out)
             posted == CallReturning("post_job_metadata", job_id, "None", result, "None")
         IN  IF result # "ok"
             THEN Returning(Effect(s, <<posted>>, TRUE, get_api_client(client, out)),
                            Raise("Error"))
             ELSE Returning(Effect(add_message(s, "Job metadata posted", t),
                                   <<posted>>, FALSE, TRUE), NoReturn)

\* upload_output adding its message before the upload is made
upload_output_message_first(s, client, up, t) ==
    Returning(Effect(add_message(s, "Output published", t),
                     <<upload("output", up = "ok")>>, up # "ok", client),
              IF up # "ok" THEN Raise("TransferError") ELSE NoReturn)

\* upload_output publishing the status after its message
upload_output_published(s, client, up, t) ==
    IF up # "ok"
    THEN Returning(Effect(s, <<upload("output", FALSE)>>, TRUE, client),
                   Raise("TransferError"))
    ELSE LET pub == publish_status(add_message(s, "Output published", t), client, "ok")
         IN  Returning(Effect(pub.task_status, <<upload("output", TRUE)>> \o pub.net,
                              FALSE, pub.api_client), NoReturn)

\* upload_output
upload_output(s, client, up, t) ==
    IF up # "ok"
    THEN Returning(Effect(s, <<upload("output", FALSE)>>, TRUE, client),
                   Raise("TransferError"))
    ELSE Returning(Effect(add_message(s, "Output published", t),
                          <<upload("output", TRUE)>>, FALSE, client), NoReturn)

DataOutcomes == DataIds \cup {"no_client", "raises"}

\* upload_output_as_data leaving posted_data as it was
upload_output_as_data_unrecorded(s, output_name, client, out, t) ==
    LET result == ApiResult(client, out)
        posted == CallReturning("upload_job_output_as_data", job_id, "None", result,
                                IF result = "ok" THEN out ELSE "None")
    IN  IF result # "ok"
        THEN Returning(Effect(s, <<posted>>, TRUE, get_api_client(client, out)),
                       Raise("Error"))
        ELSE Returning(
                 Effect(add_message(s, "Output 'out' published as data", t),
                        <<posted>>, FALSE, TRUE),
                 NoReturn)

\* upload_output_as_data: out is "no_client", "raises" or the data ID the
\* API returns; nothing is returned to the caller
upload_output_as_data(s, output_name, client, out, t) ==
    LET result == ApiResult(client, out)
        posted == CallReturning("upload_job_output_as_data", job_id, "None", result,
                                IF result = "ok" THEN out ELSE "None")
    IN  IF result # "ok"
        THEN Returning(Effect(s, <<posted>>, TRUE, get_api_client(client, out)),
                       Raise("Error"))
        ELSE Returning(
                 Effect(add_message(record_posted_data(s, output_name, out),
                                    "Output 'out' published as data", t),
                        <<posted>>, FALSE, TRUE),
                 NoReturn)

\* ------------------------------------------------------------ fail_epically
\* A URL is a sequence of symbols.  "%2F" is the percent-escape of "/"; the
\* symbols hold no ":", so no URL here has a scheme.
UrlSymbols == {"/", "j", "s", "?", "#", "[", "%2F"}

RECURSIVE SeqsUpTo(_, _)
SeqsUpTo(S, n) ==
    IF n = 0 THEN {<<>>}
    ELSE LET shorter == SeqsUpTo(S, n - 1)
         IN  shorter \cup {Append(u, c) : u \in {v \in shorter : Len(v) = n - 1}, c \in S}

Urls == SeqsUpTo(UrlSymbols, MaxUrlLen)

\* str.find(c, start) for any c of cs, 1-based; 0 when absent
Find(p, cs, start) ==
    LET I == {i \in start..Len(p) : p[i] \in cs}
    IN  IF I = {} THEN 0 ELSE CHOOSE i \in I : \A k \in I : i <= k

\* str.rfind(c), 1-based; 0 when absent
RFind(p, c) ==
    LET I == {i \in 1..Len(p) : p[i] = c}
    IN  IF I = {} THEN 0 ELSE CHOOSE i \in I : \A k \in I : k <= i

\* str.split(c, 1)[0]
Before(p, c) ==
    LET i == Find(p, {c}, 1) IN IF i = 0 THEN p ELSE SubSeq(p, 1, i - 1)

\* str.rstrip(c)
RStrip(p, c) ==
    LET I == {i \in 1..Len(p) : p[i] # c}
    IN  IF I = {} THEN <<>> ELSE SubSeq(p, 1, CHOOSE i \in I : \A k \in I : k <= i)

\* urlparse.urlparse(task_config_url): the authority after a leading "//"
\* ends at the first "/", "?" or "#"; a "[" in it with no "]" raises
\* ValueError; the fragment is cut at the first "#", then the query at the
\* first "?"
urlparse(u) ==
    LET has_netloc == Len(u) >= 2 /\ u[1] = "/" /\ u[2] = "/"
        delim == IF ~has_netloc THEN 1
                 ELSE LET i == Find(u, {"/", "?", "#"}, 3)
                      IN  IF i = 0 THEN Len(u) + 1 ELSE i
        netloc == IF has_netloc THEN SubSeq(u, 3, delim - 1) ELSE <<>>
        rest == SubSeq(u, delim, Len(u))
    IN  [netloc |-> netloc,
         path |-> Before(Before(rest, "#"), "?"),
         error |-> /\ \E i \in 1..Len(netloc) : netloc[i] = "["
                   /\ ~\E i \in 1..Len(netloc) : netloc[i] = "]"]

\* urlparse.unquote
unquote(p) == [i \in 1..Len(p) |-> IF p[i] = "%2F" THEN "/" ELSE p[i]]

\* os.path.dirname
dirname(p) ==
    LET head == SubSeq(p, 1, RFind(p, "/"))
    IN  IF head # <<>> /\ \E i \in 1..Len(head) : head[i] # "/"
        THEN RStrip(head, "/") ELSE head

\* os.path.basename
basename(p) == SubSeq(p, RFind(p, "/") + 1, Len(p))

\* fail_epically, lines 663-664: the job ID taken from the URL
epic_job_id(u) == basename(dirname(unquote(urlparse(u).path)))

EpicOutcomes == {"ok", "no_client", "report_raises"}

\* fail_epically: the job ID is computed outside the try block, so an
\* exception of urlparse leaves the function; the API call is inside it
fail_epically(s, u, client, out) ==
    IF urlparse(u).error
    THEN Effect(s, <<>>, TRUE, client)
    ELSE Effect(s,
                <<update_job_state(epic_job_id(u), FAILED, PLATFORM,
                      IF ~get_api_client(client, out) THEN "no_client"
                      ELSE IF out = "report_raises" THEN "raised" ELSE "ok")>>,
                FALSE,
                get_api_client(client, out))

\* ----------------------------------------------------------------- actions
NoArgs ==
    [failure_type |-> None, logfile_path |-> FALSE, dir |-> "None", name |-> "None"]
Args(failure_type, logfile_path) ==
    [NoArgs EXCEPT !.failure_type = failure_type, !.logfile_path = logfile_path]
ArgsDir(dir) == [NoArgs EXCEPT !.dir = dir]
ArgsName(name) == [NoArgs EXCEPT !.name = name]

\* etau.get_isotime(): the clock does not run backwards
Now == {t \in 0..MaxTime : clock <= t /\ t <= clock + 1}

FailureTypes == {USER, ANALYTIC}

Init ==
    /\ task_status = TaskStatus_init
    /\ clock = 0
    /\ api_client = FALSE
    /\ net = <<>>
    /\ raised = FALSE
    /\ nops = 0
    /\ op = "__init__"
    /\ phase = "fresh"
    /\ call = NoArgs
    /\ url = <<>>
    /\ ret = NoReturn
    /\ limit = MaxOps
    /\ job_state = None
    /\ publish_failed = FALSE

\* History of the calls made on the TaskStatus since its construction:
\* "started" after start() and then add_message() calls only, "completed"
\* after one complete() following those, "other" after anything else
Follow(ph, name) ==
    IF ph = "fresh" /\ name = "start" THEN "started"
    ELSE IF ph = "started" /\ name = "add_message" THEN "started"
    ELSE IF ph = "started" /\ name = "complete" THEN "completed"
    ELSE "other"

\* A call that touches the TaskStatus only
Local(name, s, t, args) ==
    /\ nops < limit
    /\ task_status' = s
    /\ clock' = t
    /\ net' = <<>>
    /\ raised' = FALSE
    /\ nops' = nops + 1
    /\ op' = name
    /\ phase' = Follow(phase, name)
    /\ call' = args
    /\ ret' = NoReturn
    /\ UNCHANGED <<api_client, url, limit, job_state, publish_failed>>

\* A call that also makes remote calls
Remote(name, e, t, args) ==
    /\ nops < limit
    /\ task_status' = e.task_status
    /\ clock' = t
    /\ net' = e.net
    /\ raised' = e.raised
    /\ api_client' = e.api_client
    /\ nops' = nops + 1
    /\ op' = name
    /\ phase' = Follow(phase, name)
    /\ call' = args
    /\ ret' = IF e.raised THEN Raise("Error") ELSE NoReturn
    /\ job_state' = Reported(job_state, e.net)
    /\ publish_failed' = (publish_failed \/ PublishFailed(e.net))
    /\ UNCHANGED <<url, limit>>

\* A call that makes remote calls and returns a value
RemoteReturning(name, r, args) ==
    /\ nops < limit
    /\ task_status' = r.task_status
    /\ clock' = LET m == r.task_status.messages
              IN  IF Len(m) > Len(task_status.messages) THEN m[Len(m)].time ELSE clock
    /\ net' = r.net
    /\ raised' = r.raised
    /\ api_client' = r.api_client
    /\ nops' = nops + 1
    /\ op' = name
    /\ phase' = Follow(phase, name)
    /\ call' = args
    /\ ret' = r.ret
    /\ job_state' = Reported(job_state, r.net)
    /\ publish_failed' = (publish_failed \/ PublishFailed(r.net))
    /\ UNCHANGED <<url, limit>>

\* Clock readings of two successive messages
Now2 == {ts \in [1..2 -> Now] : ts[1] <= ts[2]}

Start == \E t \in Now : Local("start", TaskStatus_start(task_status, t), t, NoArgs)

Complete ==
    \E t \in Now : Local("complete", TaskStatus_complete(task_status, t), t, NoArgs)

Fail ==
    \E t \in Now, ft \in FailureTypes :
        Local("fail", TaskStatus_fail(task_status, ft, t), t, Args(ft, FALSE))

AddMessage ==
    \E t \in Now : Local("add_message", add_message(task_status, "msg", t), t, NoArgs)

RecordInputMetadata ==
    \E n \in InputNames, m \in Metadata :
        Local("record_input_metadata", record_input_metadata(task_status, n, m),
              clock, NoArgs)

RecordPostedData ==
    \E n \in OutputNames, d \in DataIds :
        Local("record_posted_data", record_posted_data(task_status, n, d),
              clock, NoArgs)

Publish ==
    \E out \in PublishOutcomes :
        /\ out = "no_client" => ~api_client
        /\ Remote("publish", publish_status(task_status, api_client, out),
                  clock, NoArgs)

StartTask ==
    \E t \in Now, out \in PublishOutcomes :
        /\ out = "no_client" => ~api_client
        /\ Remote("start_task", start_task(task_status, t, api_client, out),
                  t, NoArgs)

CompleteTask ==
    \E t \in Now, lf \in BOOLEAN, out \in PublishOutcomes, up \in UploadOutcomes :
        /\ out = "no_client" => ~api_client
        /\ Remote("complete_task",
                  complete_task(task_status, t, api_client, lf, out, up),
                  t, Args(None, lf))

FailGracefully ==
    \E t \in Now, ft \in FailureTypes, lf \in BOOLEAN,
       out \in PublishOutcomes, up \in UploadOutcomes :
        /\ out = "no_client" => ~api_client
        /\ Remote("fail_gracefully",
                  fail_gracefully(task_status, ft, t, api_client, lf, out, up),
                  t, Args(ft, lf))

DownloadInputs ==
    \E outs \in [1..Len(task_config_inputs) -> DownloadOutcomes], ts \in Now2 :
        RemoteReturning("download_inputs",
                        download_inputs(task_status, "dir", api_client, outs, ts),
                        ArgsDir("dir"))

ParseParameters ==
    \E dir \in Dirs, outs \in [1..Len(task_config_parameters) -> DownloadOutcomes],
       ts \in Now2 :
        RemoteReturning("parse_parameters",
                        parse_parameters(task_status, dir, api_client, outs, ts),
                        ArgsDir(dir))

PostJobMetadata ==
    \E out \in PostOutcomes, t \in Now :
        /\ out = "no_client" => ~api_client
        /\ RemoteReturning("post_job_metadata",
                           post_job_metadata(task_status, api_client, out, t), NoArgs)

UploadOutput ==
    \E up \in UploadOutcomes, t \in Now :
        RemoteReturning("upload_output",
                        upload_output(task_status, api_client, up, t), NoArgs)

UploadOutputAsData ==
    \E n \in OutputNames, out \in DataOutcomes, t \in Now :
        /\ out = "no_client" => ~api_client
        /\ RemoteReturning("upload_output_as_data",
                           upload_output_as_data(task_status, n, api_client, out, t),
                           ArgsName(n))

Next ==
    \/ Start
    \/ Complete
    \/ Fail
    \/ AddMessage
    \/ RecordInputMetadata
    \/ RecordPostedData
    \/ Publish
    \/ StartTask
    \/ CompleteTask
    \/ FailGracefully

Spec == Init /\ [][Next]_vars

\* Every operation of TaskStatus and TaskManager, transfers and postings
\* included, over runs of MaxCalls calls
InitAll ==
    /\ task_status = TaskStatus_init
    /\ clock = 0
    /\ api_client = FALSE
    /\ net = <<>>
    /\ raised = FALSE
    /\ nops = 0
    /\ op = "__init__"
    /\ phase = "fresh"
    /\ call = NoArgs
    /\ url = <<>>
    /\ ret = NoReturn
    /\ limit = MaxCalls
    /\ job_state = None
    /\ publish_failed = FALSE

NextAll ==
    \/ Start
    \/ Complete
    \/ Fail
    \/ AddMessage
    \/ RecordInputMetadata
    \/ RecordPostedData
    \/ Publish
    \/ StartTask
    \/ CompleteTask
    \/ FailGracefully
    \/ DownloadInputs
    \/ ParseParameters
    \/ PostJobMetadata
    \/ UploadOutput
    \/ UploadOutputAsData

SpecAll == InitAll /\ [][NextAll]_vars

\* The operations of TaskManager only: the TaskStatus is reached through
\* the manager's methods, over runs of MaxManagerOps calls
InitManager ==
    /\ task_status = TaskStatus_init
    /\ clock = 0
    /\ api_client = FALSE
    /\ net = <<>>
    /\ raised = FALSE
    /\ nops = 0
    /\ op = "__init__"
    /\ phase = "fresh"
    /\ call = NoArgs
    /\ url = <<>>
    /\ ret = NoReturn
    /\ limit = MaxManagerOps
    /\ job_state = None
    /\ publish_failed = FALSE

NextManager ==
    \/ StartTask
    \/ CompleteTask
    \/ FailGracefully
    \/ Publish
    \/ AddMessage
    \/ RecordInputMetadata
    \/ DownloadInputs
    \/ ParseParameters
    \/ PostJobMetadata
    \/ UploadOutput
    \/ UploadOutputAsData

SpecManager == InitManager /\ [][NextManager]_vars

\* fail_epically runs when no TaskConfig could be downloaded: no TaskStatus
\* has been used and no API client has been made yet
InitEpic ==
    /\ task_status = TaskStatus_init
    /\ clock = 0
    /\ api_client = FALSE
    /\ net = <<>>
    /\ raised = FALSE
    /\ nops = 0
    /\ op = "__init__"
    /\ phase = "fresh"
    /\ call = NoArgs
    /\ url \in Urls
    /\ ret = NoReturn
    /\ limit = 1
    /\ job_state = None
    /\ publish_failed = FALSE

FailEpically ==
    \E out \in EpicOutcomes :
        /\ nops < limit
        /\ LET e == fail_epically(task_status, url, api_client, out)
           IN  /\ net' = e.net
               /\ raised' = e.raised
               /\ api_client' = e.api_client
               /\ job_state' = Reported(job_state, e.net)
               /\ publish_failed' = (publish_failed \/ PublishFailed(e.net))
        /\ nops' = 1
        /\ op' = "fail_epically"
        /\ phase' = Follow(phase, "fail_epically")
        /\ ret' = IF raised' THEN Raise("ValueError") ELSE NoReturn
        /\ UNCHANGED <<task_status, clock, call, url, limit>>

NextEpic == FailEpically

SpecEpic == InitEpic /\ [][NextEpic]_vars

\* ------------------------------------------------------------------ claims
Calls(name) == {i \in 1..Len(net) : net[i].op = name}

\* C1: every change of TaskStatus.state is SCHEDULED->RUNNING,
\* RUNNING->COMPLETE or RUNNING->FAILED: COMPLETE and FAILED are never left
\* and start() changes the state only from SCHEDULED.
C1_OnlyLifecycleTransitions ==
    [][task_status'.state # task_status.state =>
          <<task_status.state, task_status'.state>> \in
              {<<SCHEDULED, RUNNING>>, <<RUNNING, COMPLETE>>, <<RUNNING, FAILED>>}]_vars

\* C2: failure_type is NONE whenever state is not FAILED.
C2_FailureTypeOnlyWhenFailed ==
    task_status.state # FAILED => task_status.failure_type = NONE

\* C3: start_time, complete_time and fail_time are each set at most once
\* (a set timestamp never changes again) and each is written only by its
\* own transition.
C3_TimestampsSetOnce ==
    [][/\ task_status.start_time # NoTime =>
              task_status'.start_time = task_status.start_time
       /\ task_status.complete_time # NoTime =>
              task_status'.complete_time = task_status.complete_time
       /\ task_status.fail_time # NoTime =>
              task_status'.fail_time = task_status.fail_time
       /\ task_status'.start_time # task_status.start_time =>
              op' \in {"start", "start_task"}
       /\ task_status'.complete_time # task_status.complete_time =>
              op' \in {"complete", "complete_task"}
       /\ task_status'.fail_time # task_status.fail_time =>
              op' \in {"fail", "fail_gracefully"}]_vars

\* C4: fail_gracefully with a logfile path attempts the upload to the
\* logfile location whatever became of the publish, and every remote call
\* of the publish comes before it.
C4_LogfileUploadAlwaysAttempted ==
    (op = "fail_gracefully" /\ call.logfile_path) =>
        /\ Len(net) >= 2
        /\ net[1].op = "upload_bytes" /\ net[1].path_config = "status"
        /\ net[Len(net)].op = "upload" /\ net[Len(net)].path_config = "logfile"
        /\ \A i \in 1..(Len(net) - 1) :
               net[i].op \in {"upload_bytes", "update_job_state"}

\* C4 witness: the job-state report of the publish raised and the logfile
\* upload was attempted after it.
C4_Witness ==
    /\ op = "fail_gracefully" /\ call.logfile_path
    /\ Len(net) = 3
    /\ net[2].op = "update_job_state" /\ net[2].result = "raised"
    /\ net[3].op = "upload" /\ net[3].path_config = "logfile"

\* C5: no exception leaves fail_gracefully whichever remote calls raise;
\* afterwards state is FAILED, failure_type is the argument, and every
\* status document it wrote shows FAILED with that failure type.
C5_FailGracefullyContained ==
    op = "fail_gracefully" =>
        /\ ~raised
        /\ task_status.state = FAILED
        /\ task_status.failure_type = call.failure_type
        /\ \A i \in Calls("upload_bytes") :
               net[i].result = "ok" =>
                   /\ net[i].doc[1].state = FAILED
                   /\ net[i].doc[1].failure_type = call.failure_type

\* C5 witness: the status document was written, then the job-state report
\* and the logfile upload both raised, and fail_gracefully returned.
C5_Witness ==
    /\ op = "fail_gracefully" /\ ~raised
    /\ Len(net) = 3
    /\ net[1].op = "upload_bytes" /\ net[1].result = "ok"
    /\ net[2].result = "raised"
    /\ net[3].op = "upload" /\ net[3].result = "raised"

\* The job ID the claim names: the last non-empty segment before the final
\* component of the decoded URL path
RECURSIVE Split(_)
Split(p) ==
    LET i == Find(p, {"/"}, 1)
    IN  IF i = 0 THEN <<p>>
        ELSE <<SubSeq(p, 1, i - 1)>> \o Split(SubSeq(p, i + 1, Len(p)))

SegmentBeforeFinal(u) ==
    LET segs == Split(unquote(urlparse(u).path))
        I == {i \in 1..(Len(segs) - 1) : segs[i] # <<>>}
    IN  IF I = {} THEN <<>> ELSE segs[CHOOSE i \in I : \A k \in I : k <= i]

\* C6: fail_epically(url) attempts exactly one platform call,
\* update_job_state(j, FAILED, PLATFORM) with j the path segment before the
\* final path component, writes no status document, uploads no logfile, and
\* no exception leaves it.
C6_EpicSingleReport ==
    op = "fail_epically" =>
        /\ ~raised
        /\ Len(net) = 1
        /\ net[1].op = "update_job_state"
        /\ net[1].job_id = SegmentBeforeFinal(url)
        /\ net[1].state = FAILED
        /\ net[1].failure_type = PLATFORM

\* C7: when the extraction of the job ID from the URL fails, no exception
\* leaves fail_epically.
C7_ExtractionFailureSwallowed ==
    (op = "fail_epically" /\ urlparse(url).error) => ~raised

\* C8: in every publish the job-state report comes right after a status
\* write that returned; a status write that raised is followed by no report
\* and the exception leaves publish().
C8_StatusWriteBeforeReport ==
    /\ \A i \in Calls("update_job_state") :
           /\ i > 1
           /\ net[i - 1].op = "upload_bytes"
           /\ net[i - 1].path_config = "status"
           /\ net[i - 1].result = "ok"
    /\ (\E i \in Calls("upload_bytes") : net[i].result = "raised") =>
           /\ Calls("update_job_state") = {}
           /\ op \in {"publish", "start_task", "complete_task"} => raised

\* C8 witness: publish() whose status write raised.
C8_Witness ==
    /\ op = "publish" /\ raised
    /\ Len(net) = 1
    /\ net[1].op = "upload_bytes" /\ net[1].result = "raised"

\* C9: every job-state report of a publish is keyed by the descriptor's
\* job_id, carries the state the TaskStatus holds, and carries a failure
\* type exactly when that state is FAILED: then the status's failure_type.
C9_ReportCarriesState ==
    \A i \in Calls("update_job_state") :
        /\ net[i].job_id = job_id
        /\ net[i].state = task_status.state
        /\ (net[i].failure_type # None) <=> (task_status.state = FAILED)
        /\ task_status.state = FAILED =>
               net[i].failure_type = task_status.failure_type

\* C9 witness: a RUNNING status that still holds an earlier failure type is
\* published, and the report is made.
C9_Witness ==
    /\ op = "publish"
    /\ task_status.state = RUNNING
    /\ task_status.failure_type = USER
    /\ Calls("update_job_state") # {}

\* C10: start() then add_message() calls then complete() on a fresh
\* TaskStatus leave state COMPLETE, start_time and complete_time set to the
\* timestamps of the messages start() and complete() appended, fail_time
\* unset and complete_time >= start_time.
C10_StartThenComplete ==
    phase = "completed" =>
        LET m == task_status.messages
        IN  /\ task_status.state = COMPLETE
            /\ task_status.start_time # NoTime
            /\ task_status.complete_time # NoTime
            /\ task_status.fail_time = NoTime
            /\ task_status.complete_time >= task_status.start_time
            /\ Len(m) >= 2
            /\ m[1].message = "Task started"
            /\ m[1].time = task_status.start_time
            /\ m[Len(m)].message = "Task complete"
            /\ m[Len(m)].time = task_status.complete_time

\* C10 witness: start(), one add_message(), complete(), the clock having
\* moved between start() and complete().
C10_Witness ==
    /\ phase = "completed"
    /\ Len(task_status.messages) = 3
    /\ task_status.complete_time > task_status.start_time

\* C11: fail(ANALYTIC), called in any state, leaves state FAILED and
\* failure_type ANALYTIC, sets fail_time and appends one message.
C11_FailFromAnyState ==
    [][(op' = "fail" /\ call'.failure_type = ANALYTIC) =>
          LET m == task_status'.messages
          IN  /\ task_status'.state = FAILED
              /\ task_status'.failure_type = ANALYTIC
              /\ Len(m) = Len(task_status.messages) + 1
              /\ SubSeq(m, 1, Len(m) - 1) = task_status.messages
              /\ m[Len(m)].message = "Task failed"
              /\ task_status'.fail_time # NoTime
              /\ task_status'.fail_time = m[Len(m)].time]_vars

\* C11 witness: fail(ANALYTIC) called on a COMPLETE status that holds two
\* messages.
C11_Witness ==
    /\ op = "fail" /\ call.failure_type = ANALYTIC
    /\ Len(task_status.messages) = 3
    /\ task_status.messages[2].message = "Task complete"
    /\ task_status.complete_time # NoTime
    /\ task_status.state = FAILED

\* C12: messages is append-only: every operation leaves the messages it
\* found as a prefix of the messages it leaves, and add_message appends
\* exactly one entry whatever the state.
C12_MessagesAppendOnly ==
    [][LET m == task_status.messages
           n == task_status'.messages
       IN  /\ Len(m) <= Len(n)
           /\ SubSeq(n, 1, Len(m)) = m
           /\ (op' = "add_message" /\ nops' = nops + 1) =>
                  /\ Len(n) = Len(m) + 1
                  /\ n[Len(n)].message = "msg"]_vars

\* C12 witness: add_message on a FAILED status, after fail() left its message.
C12_Witness ==
    /\ op = "add_message"
    /\ task_status.state = FAILED
    /\ Len(task_status.messages) = 2
    /\ task_status.messages[1].message = "Task failed"
    /\ task_status.messages[2].message = "msg"

\* C13: TaskManager.complete(logfile_path) marks the status COMPLETE, then
\* publishes it, then uploads the logfile to the logfile location; a failure
\* of that upload leaves complete() as an error, the status being COMPLETE
\* and published by then.
C13_CompleteUploadSurfaced ==
    (op = "complete_task" /\ call.logfile_path) =>
        /\ task_status.state = COMPLETE
        /\ net[1].op = "upload_bytes" /\ net[1].doc[1].state = COMPLETE
        /\ (Len(net) >= 2 /\ net[2].result = "ok") => Calls("upload") # {}
        /\ \A i \in Calls("upload") :
               /\ i = 3 /\ Len(net) = 3
               /\ net[i].path_config = "logfile"
               /\ net[1].result = "ok"
               /\ net[2].op = "update_job_state"
               /\ net[2].state = COMPLETE
               /\ net[2].result = "ok"
               /\ raised <=> (net[i].result = "raised")

\* C13 witness: the publish went through and the logfile upload raised.
C13_Witness ==
    /\ op = "complete_task" /\ call.logfile_path
    /\ Len(net) = 3
    /\ net[3].op = "upload" /\ net[3].result = "raised"
    /\ raised

\* C14: a publish that fails in TaskManager.start() or
\* TaskManager.complete(), at the status write or at the job-state report,
\* leaves the call as an error.
C14_PublishFailureSurfaced ==
    (/\ op \in {"start_task", "complete_task"}
     /\ \E i \in Calls("upload_bytes") \cup Calls("update_job_state") :
            net[i].result # "ok")
        => raised

\* C14 witness: TaskManager.start() whose job-state report raised.
C14_Witness ==
    /\ op = "start_task" /\ raised
    /\ Len(net) = 2
    /\ net[2].op = "update_job_state" /\ net[2].result = "raised"

\* Names of the inputs and of the parameters of the task config
InputsOf == {task_config_inputs[i] : i \in 1..Len(task_config_inputs)}
ParametersOf ==
    {task_config_parameters[i].name : i \in 1..Len(task_config_parameters)}
DataParameters ==
    {i \in 1..Len(task_config_parameters) :
         is_path_config_dict(task_config_parameters[i].val)}

\* C15: when every download succeeds, download_inputs returns a mapping
\* whose keys are exactly the input names, each mapped to the path its own
\* download returned, and appends one message per input, in the iteration
\* order of the inputs.
C15_DownloadInputsResult ==
    [][(op' = "download_inputs" /\ nops' = nops + 1 /\ ~raised') =>
          LET m == task_status.messages
              n == task_status'.messages
              k == Len(task_config_inputs)
          IN  /\ ret'.kind = "dict"
              /\ DOMAIN ret'.dict = InputsOf
              /\ Len(net') = k
              /\ \A i \in 1..k :
                     /\ net'[i].op = "download"
                     /\ net'[i].path_config = task_config_inputs[i]
                     /\ ret'.dict[task_config_inputs[i]] = net'[i].returned
              /\ Len(n) = Len(m) + k
              /\ SubSeq(n, 1, Len(m)) = m
              /\ \A i \in 1..k :
                     n[Len(m) + i].message = InputDownloaded(task_config_inputs[i])]_vars

\* C15 witness: both inputs downloaded, to different paths, onto a status
\* that already held a message.
C15_Witness ==
    /\ op = "download_inputs" /\ ~raised
    /\ ret.dict["video"] = "p2" /\ ret.dict["mask"] = "p1"
    /\ Len(task_status.messages) = 3
    /\ task_status.messages[2].message = "Input 'video' downloaded"
    /\ task_status.messages[3].message = "Input 'mask' downloaded"

\* C16: parse_parameters(dir) returns a mapping with exactly the parameter
\* names; a parameter of the location-spec shape is downloaded once and
\* mapped to the downloaded path, with one message; every other parameter
\* is mapped to its value, with no download and no message.
C16_ParseParametersResult ==
    [][(op' = "parse_parameters" /\ nops' = nops + 1 /\ ~raised') =>
          LET m == task_status.messages
              n == task_status'.messages
          IN  /\ ret'.kind = "dict"
              /\ DOMAIN ret'.dict = ParametersOf
              /\ Len(net') = Cardinality(DataParameters)
              /\ \A i \in 1..Len(task_config_parameters) :
                     LET p == task_config_parameters[i]
                         D == {j \in 1..Len(net') : net'[j].path_config = p.name}
                     IN  IF i \in DataParameters
                         THEN /\ Cardinality(D) = 1
                              /\ \A j \in D : /\ net'[j].op = "download"
                                              /\ net'[j].result = "ok"
                                              /\ ret'.dict[p.name] = net'[j].returned
                              /\ \E j \in (Len(m) + 1)..Len(n) :
                                     n[j].message = ParameterDownloaded(p.name)
                         ELSE /\ D = {}
                              /\ ret'.dict[p.name] = p.val
              /\ Len(n) = Len(m) + Cardinality(DataParameters)
              /\ SubSeq(n, 1, Len(m)) = m]_vars

\* C16 witness: parameter a keeps its value and parameter b is downloaded.
C16_Witness ==
    /\ op = "parse_parameters" /\ ~raised
    /\ ret.dict["a"] = "5" /\ ret.dict["b"] = "p2"
    /\ Len(net) = 1
    /\ Len(task_status.messages) = 2
    /\ task_status.messages[2].message = "Parameter 'b' downloaded"

C18_ReturnsDataId ==
    (op = "upload_output_as_data" /\ ~raised) =>
        /\ Len(net) = 1
        /\ net[1].op = "upload_job_output_as_data"
        /\ net[1].job_id = job_id
        /\ task_status.posted_data[call.name] = net[1].returned
        /\ ret.kind = "str" /\ ret.str = net[1].returned

\* C18 as amended: upload_output_as_data posts through the API keyed by
\* job_id and records the returned ID under posted_data[name]; it returns
\* nothing.
C18_RecordsDataId ==
    (op = "upload_output_as_data" /\ ~raised) =>
        /\ Len(net) = 1
        /\ net[1].op = "upload_job_output_as_data"
        /\ net[1].job_id = job_id
        /\ net[1].returned \in DataIds
        /\ task_status.posted_data[call.name] = net[1].returned
        /\ ret = NoReturn

\* C18 witness: an output posted as data over an earlier posted_data entry
\* of the same name.
C18_Witness ==
    /\ op = "upload_output_as_data" /\ ~raised
    /\ nops = 2
    /\ net[1].returned = "d2"
    /\ task_status.posted_data["out"] = "d2"
    /\ Len(task_status.messages) = 1

\* C19: download_inputs attempts each input's download at most once, in
\* order; the first download that fails ends the call with its error and
\* no later input is downloaded.
C19_NoRetryNoContinue ==
    op = "download_inputs" =>
        /\ Len(net) <= Len(task_config_inputs)
        /\ \A i \in 1..Len(net) :
               /\ net[i].op = "download"
               /\ net[i].path_config = task_config_inputs[i]
               /\ i < Len(net) => net[i].result = "ok"
        /\ raised <=> (Len(net) > 0 /\ net[Len(net)].result = "raised")
        /\ ~raised => Len(net) = Len(task_config_inputs)

\* C19 witness: the first download fails and the second input is never
\* downloaded.
C19_Witness ==
    /\ op = "download_inputs" /\ raised
    /\ Len(net) = 1
    /\ net[1].path_config = "video" /\ net[1].result = "raised"

\* C20: download_inputs, parse_parameters, post_job_metadata,
\* upload_output, upload_output_as_data, add_message and
\* record_input_metadata write no status document and report no job state;
\* only start, complete, fail_gracefully and publish do.
C20_NoPublishOutsidePublishers ==
    /\ op \in {"download_inputs", "parse_parameters", "post_job_metadata",
               "upload_output", "upload_output_as_data", "add_message",
               "record_input_metadata"} =>
           Calls("upload_bytes") \cup Calls("update_job_state") = {}
    /\ Calls("upload_bytes") \cup Calls("update_job_state") # {} =>
           op \in {"start_task", "complete_task", "fail_gracefully", "publish"}

\* C20 witness: upload_output added its message to a status published
\* before, and made no call but the upload.
C20_Witness ==
    /\ op = "upload_output" /\ ~raised
    /\ Len(net) = 1 /\ net[1].op = "upload" /\ net[1].path_config = "output"
    /\ Len(task_status.messages) = 2
    /\ task_status.messages[1].message = "Task started"
    /\ task_status.messages[2].message = "Output published"

\* C21: over TaskManager operations, as long as no publish has failed, the
\* job state last reported to the platform is the TaskStatus state whenever
\* that state is not SCHEDULED, and the state is SCHEDULED while nothing has
\* been reported.
C21_ReportedStateFollowsStatus ==
    ~publish_failed =>
        /\ task_status.state # SCHEDULED => job_state = task_status.state
        /\ job_state = None => task_status.state = SCHEDULED

\* C21 witness: start() and then complete(), both published, leave the
\* platform at COMPLETE.
C21_Witness ==
    /\ ~publish_failed
    /\ nops = 2 /\ op = "complete_task"
    /\ task_status.start_time # NoTime
    /\ task_status.state = COMPLETE
    /\ job_state = COMPLETE

\* C22: when the publish of TaskManager.complete(logfile_path) fails, at the
\* status write or at the job-state report, the logfile upload is not
\* attempted, the TaskStatus being COMPLETE already; when the publish of
\* fail_gracefully fails the logfile upload is attempted.
C22_CompleteSkipsUploadOnPublishFailure ==
    (call.logfile_path /\ PublishFailed(net)) =>
        /\ op = "complete_task" =>
               /\ Calls("upload") = {}
               /\ raised
               /\ task_status.state = COMPLETE
               /\ task_status.complete_time # NoTime
        /\ op = "fail_gracefully" =>
               \E i \in Calls("upload") : net[i].path_config = "logfile"

\* C22 witness: complete(logfile_path) on a RUNNING status whose job-state
\* report raised.
C22_Witness ==
    /\ op = "complete_task" /\ call.logfile_path
    /\ task_status.start_time # NoTime
    /\ Len(net) = 2
    /\ net[1].result = "ok"
    /\ net[2].op = "update_job_state" /\ net[2].result = "raised"
    /\ task_status.state = COMPLETE

\* C23: upload_output, upload_output_as_data and post_job_metadata leave
\* the TaskStatus as it was when their remote call fails, and the error
\* leaves the call; the TaskStatus changes only when the call went through.
C23_StatusUnchangedOnFailedCall ==
    [][(/\ op' \in {"upload_output", "upload_output_as_data", "post_job_metadata"}
        /\ nops' = nops + 1) =>
          /\ (\E i \in 1..Len(net') : net'[i].result # "ok") =>
                 /\ raised'
                 /\ ret'.kind = "raise"
                 /\ task_status' = task_status
          /\ task_status' # task_status =>
                 /\ Len(net') = 1
                 /\ net'[1].result = "ok"
                 /\ ~raised']_vars

\* C23 witness: upload_output_as_data failed on a status that holds a
\* message, and recorded nothing.
C23_Witness ==
    /\ op = "upload_output_as_data" /\ raised
    /\ Len(net) = 1 /\ net[1].result = "raised"
    /\ task_status.posted_data = TaskStatus_init.posted_data
    /\ Len(task_status.messages) = 1

====
